---- MODULE Spec2Model ----
(***************************************************************************)
(* Model of two leaf decoders of the kindling collector:                   *)
(*   - the DNS response decoder (dns_response.go), and                     *)
(*   - the Dubbo attribute-layer serializers (Hessian2, Fastjson and the   *)
(*     unsupported fallback).                                              *)
(* Go strings and byte slices are sequences of byte values (0..255).       *)
(* Go indices are 0-based; At and Slice translate them.                    *)
(***************************************************************************)
EXTENDS Integers, Sequences, FiniteSets, TLC

VARIABLES
    serialID,   \* Dubbo: serialization id handed to GetSerializer
    data,       \* Dubbo: the byte slice handed to the serializer
    offset,     \* Dubbo: the offset / from argument
    op,         \* Dubbo: the serializer method that has run ("none" before)
    key,        \* Dubbo: the key argument of getStringValueByKey
    res,        \* Dubbo: what the method returned (or that it panicked)
    Data,       \* DNS: message.Data
    Offset,     \* DNS: message.Offset
    attrs,      \* DNS: the message's attribute map
    pc,         \* DNS: position of the decoder on the message
    fastfail,   \* DNS: result of the fast-fail predicate
    matched,    \* DNS: first result of parse
    done        \* DNS: second result of parse

vars == <<serialID, data, offset, op, key, res,
          Data, Offset, attrs, pc, fastfail, matched, done>>

dubboVars == <<serialID, data, offset, op, key, res>>
dnsVars == <<Data, Offset, attrs, pc, fastfail, matched, done>>

(***************************************************************************)
(* Bounds of the explored inputs.                                          *)
(***************************************************************************)
MaxHessianLen == 5
MaxJsonLen == 8
MaxUnsupportLen == 3

(***************************************************************************)
(* Byte-slice helpers.                                                     *)
(***************************************************************************)
\* data[i] with a 0-based index
At(d, i) == d[i + 1]

\* data[lo:hi] with 0-based bounds, lo <= hi <= len(data)
Slice(d, lo, hi) == SubSeq(d, lo + 1, hi)

\* the attribute map of a new message
NoAttributes == [x \in {} |-> TRUE]

\* every byte sequence over alphabet a of length at most n
SeqsUpTo(a, n) == UNION {[1..k -> a] : k \in 0..n}

(***************************************************************************)
(* Dubbo constants.                                                        *)
(***************************************************************************)
JsonNextLine == 10
JsonQutoes == 34
JsonColon == 58
SerialHessian2 == 2
SerialFastjson == 6

\* The result of a serializer method.  panic = TRUE stands for a Go runtime
\* panic (index out of range, slice bounds out of range).
Ret(o, v) == [panic |-> FALSE, off |-> o, val |-> v]
Panic == [panic |-> TRUE, off |-> 0, val |-> <<>>]

\* GetSerializer: which implementation a serialization id selects
GetSerializer(id) ==
    IF id = SerialHessian2 THEN "hessian2"
    ELSE IF id = SerialFastjson THEN "fastjson"
    ELSE "unsupport"

(***************************************************************************)
(* Hessian2.                                                               *)
(***************************************************************************)
\* a tag in [0x30, 0x33] announces a two-byte length prefix
HessianIsLongTag(tag) == tag >= 48 /\ tag <= 51

\* int(tag-0x30)<<8 + int(data[offset+1])
HessianLongLength(tag, next) == (tag - 48) * 256 + next

HessianEatString(d, off) ==
    LET dataLength == Len(d) IN
    IF off >= dataLength THEN Ret(dataLength, <<>>)
    ELSE LET tag == At(d, off) IN
         IF HessianIsLongTag(tag)
         THEN IF off + 1 = dataLength THEN Ret(dataLength, <<>>)
              ELSE Ret(off + 2 + HessianLongLength(tag, At(d, off + 1)), <<>>)
         ELSE Ret(off + 1 + tag, <<>>)

\* a variant of the payload read that drops a truncated payload
HessianReadPayloadDropsTruncated(d, off, stringValueLength) ==
    IF off + stringValueLength > Len(d)
    THEN Ret(Len(d), <<>>)
    ELSE Ret(off + stringValueLength, Slice(d, off, off + stringValueLength))

\* the tail of getStringValue once the prefix has been consumed
HessianReadPayload(d, off, stringValueLength) ==
    IF off + stringValueLength >= Len(d)
    THEN Ret(Len(d), Slice(d, off, Len(d)))
    ELSE Ret(off + stringValueLength, Slice(d, off, off + stringValueLength))

HessianGetStringValue(d, off) ==
    LET dataLength == Len(d) IN
    IF off >= dataLength THEN Ret(dataLength, <<>>)
    ELSE LET tag == At(d, off) IN
         IF HessianIsLongTag(tag)
         THEN IF off + 1 = dataLength THEN Ret(dataLength, <<>>)
              ELSE HessianReadPayload(d, off + 2,
                                      HessianLongLength(tag, At(d, off + 1)))
         ELSE HessianReadPayload(d, off + 1, tag)

HessianGetStrValue(d, dataLength, index, length) ==
    IF index >= dataLength THEN <<>>
    ELSE IF index + length >= Len(d) THEN <<>>
    ELSE Slice(d, index, index + length)

\* the for loop of getStringValueByKey, from index i on
RECURSIVE HessianScan(_, _, _)
HessianScan(d, i, k) ==
    IF i >= Len(d) THEN Ret(0, <<>>)
    ELSE IF At(d, i) = k[1] /\ HessianGetStrValue(d, Len(d), i, Len(k)) = k
         THEN Ret(0, HessianGetStringValue(d, i + Len(k)).val)
         ELSE HessianScan(d, i + 1, k)

HessianGetStringValueByKey(d, from, k) ==
    IF Len(k) = 0 THEN Panic      \* key[0] on an empty key
    ELSE HessianScan(d, from, k)

(***************************************************************************)
(* Fastjson.                                                               *)
(***************************************************************************)
\* the for loop shared by eatString and getStringValue: the index of the
\* first JsonNextLine at or after i, or Len(d) when there is none
RECURSIVE JsonFindNextLine(_, _)
JsonFindNextLine(d, i) ==
    IF i >= Len(d) THEN Len(d)
    ELSE IF At(d, i) = JsonNextLine THEN i
    ELSE JsonFindNextLine(d, i + 1)

JsonEatString(d, off) ==
    LET dataLength == Len(d) IN
    IF off >= dataLength THEN Ret(dataLength, <<>>)
    ELSE LET i == JsonFindNextLine(d, off + 1) IN
         IF i < dataLength THEN Ret(i + 1, <<>>) ELSE Ret(dataLength, <<>>)

JsonGetStringValue(d, off) ==
    LET dataLength == Len(d) IN
    IF off >= dataLength THEN Ret(dataLength, <<>>)
    ELSE LET i == JsonFindNextLine(d, off + 1) IN
         IF i < dataLength
         THEN IF off + 1 > i - 1 THEN Panic   \* data[offset+1 : i-1]
              ELSE Ret(i + 1, Slice(d, off + 1, i - 1))
         ELSE Ret(dataLength, <<>>)

RECURSIVE JsonFindQuote(_, _)
JsonFindQuote(d, i) ==
    IF i >= Len(d) THEN Len(d)
    ELSE IF At(d, i) = JsonQutoes THEN i
    ELSE JsonFindQuote(d, i + 1)

JsonGetNextString(d, dataLength, off) ==
    IF off >= dataLength THEN <<>>
    ELSE LET i == JsonFindQuote(d, off + 1) IN
         IF i < dataLength THEN Slice(d, off + 1, i) ELSE <<>>

\* the for loop of getStringValueByKey, from index i on with the current
\* quoteLeft
RECURSIVE JsonScan(_, _, _, _)
JsonScan(d, i, quoteLeft, k) ==
    IF i >= Len(d) THEN Ret(0, <<>>)
    ELSE IF At(d, i) # JsonQutoes THEN JsonScan(d, i + 1, quoteLeft, k)
    ELSE IF quoteLeft = 0 THEN JsonScan(d, i + 1, i, k)
    ELSE IF i + 1 >= Len(d) THEN Panic                  \* data[i+1]
    ELSE IF At(d, i + 1) # JsonColon THEN JsonScan(d, i + 1, 0, k)
    ELSE IF i + 2 >= Len(d) THEN Panic                  \* data[i+2]
    ELSE IF At(d, i + 2) # JsonQutoes THEN JsonScan(d, i + 1, 0, k)
    ELSE IF i - quoteLeft - 1 = Len(k) /\ Slice(d, quoteLeft + 1, i) = k
         THEN Ret(0, JsonGetNextString(d, Len(d), i + 2))
         ELSE JsonScan(d, i + 1, 0, k)

JsonGetStringValueByKey(d, from, k) == JsonScan(d, from, 0, k)

(***************************************************************************)
(* Unsupported serializer.                                                 *)
(***************************************************************************)
UnsupportEatString(d, off) == Ret(0, <<>>)
UnsupportGetStringValue(d, off) == Ret(0, <<>>)
UnsupportGetStringValueByKey(d, off, k) == Ret(0, <<>>)

(***************************************************************************)
(* Dispatch through the dubboSerializer interface.                         *)
(***************************************************************************)
eatString(id, d, off) ==
    CASE GetSerializer(id) = "hessian2" -> HessianEatString(d, off)
      [] GetSerializer(id) = "fastjson" -> JsonEatString(d, off)
      [] OTHER -> UnsupportEatString(d, off)

getStringValue(id, d, off) ==
    CASE GetSerializer(id) = "hessian2" -> HessianGetStringValue(d, off)
      [] GetSerializer(id) = "fastjson" -> JsonGetStringValue(d, off)
      [] OTHER -> UnsupportGetStringValue(d, off)

getStringValueByKey(id, d, off, k) ==
    CASE GetSerializer(id) = "hessian2" -> HessianGetStringValueByKey(d, off, k)
      [] GetSerializer(id) = "fastjson" -> JsonGetStringValueByKey(d, off, k)
      [] OTHER -> UnsupportGetStringValueByKey(d, off, k)

(***************************************************************************)
(* Inputs of the Dubbo serializers.                                        *)
(***************************************************************************)
\* short lengths, the two ends of the long-tag range and the byte after it
HessianBytes == {0, 1, 2, 48, 51, 52}
\* '"', ':', '\n' and the letter k
JsonBytes == {JsonQutoes, JsonColon, JsonNextLine, 107}
UnsupportBytes == {0, JsonQutoes, JsonNextLine}
UnsupportID == 3

HessianKeys == {<<1>>, <<2, 0>>}
JsonKeys == {<<107>>, <<107, 107>>}

KeysOf(id) ==
    IF id = SerialHessian2 THEN HessianKeys ELSE JsonKeys

DubboIdle ==
    /\ serialID = 0 /\ data = <<>> /\ offset = 0
    /\ op = "idle" /\ key = <<>> /\ res = Ret(0, <<>>)

DnsIdle ==
    /\ Data = <<>> /\ Offset = 0 /\ attrs = NoAttributes
    /\ pc = "idle" /\ fastfail = FALSE /\ matched = FALSE /\ done = FALSE

InitHessian ==
    /\ serialID = SerialHessian2
    /\ data \in SeqsUpTo(HessianBytes, MaxHessianLen)
    /\ offset \in 0..Len(data)
    /\ op = "none" /\ key = <<>> /\ res = Ret(0, <<>>)
    /\ DnsIdle

InitFastjson ==
    /\ serialID = SerialFastjson
    /\ data \in SeqsUpTo(JsonBytes, MaxJsonLen)
    /\ offset \in 0..Len(data)
    /\ op = "none" /\ key = <<>> /\ res = Ret(0, <<>>)
    /\ DnsIdle

InitUnsupport ==
    /\ serialID = UnsupportID
    /\ data \in SeqsUpTo(UnsupportBytes, MaxUnsupportLen)
    /\ offset \in 0..Len(data)
    /\ op = "none" /\ key = <<>> /\ res = Ret(0, <<>>)
    /\ DnsIdle

InitDubbo == InitHessian \/ InitFastjson \/ InitUnsupport

EatString ==
    /\ op = "none"
    /\ op' = "eatString"
    /\ res' = eatString(serialID, data, offset)
    /\ UNCHANGED <<serialID, data, offset, key>>
    /\ UNCHANGED dnsVars

GetStringValue ==
    /\ op = "none"
    /\ op' = "getStringValue"
    /\ res' = getStringValue(serialID, data, offset)
    /\ UNCHANGED <<serialID, data, offset, key>>
    /\ UNCHANGED dnsVars

GetStringValueByKey ==
    /\ op = "none"
    /\ \E k \in KeysOf(serialID) :
          /\ key' = k
          /\ res' = getStringValueByKey(serialID, data, offset, k)
    /\ op' = "getStringValueByKey"
    /\ UNCHANGED <<serialID, data, offset>>
    /\ UNCHANGED dnsVars

NextDubbo == EatString \/ GetStringValue \/ GetStringValueByKey

SpecDubbo == InitDubbo /\ [][NextDubbo]_vars
SpecHessian == InitHessian /\ [][NextDubbo]_vars

(***************************************************************************)
(* Payload message buffer (collector/pkg/component/analyzer/network/       *)
(* protocol): the cursor-based readers the DNS decoder calls.              *)
(***************************************************************************)
DNSHeaderSize == 12
MaxNumRR == 25
MaxMessageSize == 512
TypeA == 1
TypeAAAA == 28

\* the offset ReadBytes hands back together with nil
EOF == -1

\* ReadUInt16(offset): big-endian; incomplete when the two bytes are not
\* both inside the buffer, and the value is then 0
ReadUInt16(d, off) ==
    IF off < 0 \/ off + 2 > Len(d)
    THEN [incomplete |-> TRUE, value |-> 0]
    ELSE [incomplete |-> FALSE, value |-> At(d, off) * 256 + At(d, off + 1)]

\* ReadBytes(offset, length): nil when offset+length exceeds the buffer,
\* otherwise the bytes and the offset just after them
ReadBytes(d, off, length) ==
    IF off < 0 \/ length < 0 \/ off + length > Len(d)
    THEN [off |-> EOF, nil |-> TRUE, bytes |-> <<>>]
    ELSE [off |-> off + length, nil |-> FALSE,
          bytes |-> Slice(d, off, off + length)]

\* the attribute setters AddStringAttribute / AddIntAttribute /
\* AddBoolAttribute: a later write of a key replaces the earlier one
AddAttribute(a, k, v) ==
    [x \in (DOMAIN a) \cup {k} |-> IF x = k THEN v ELSE a[x]]

(***************************************************************************)
(* Text conversions.                                                       *)
(***************************************************************************)
\* decimal digits of n as ASCII
RECURSIVE Decimal(_)
Decimal(n) ==
    IF n < 10 THEN <<48 + n>> ELSE Decimal(n \div 10) \o <<48 + (n % 10)>>

HexDigit(h) == IF h < 10 THEN 48 + h ELSE 87 + h

\* hexString: two lower-case hex digits per byte
RECURSIVE HexString(_)
HexString(b) ==
    IF b = <<>> THEN <<>>
    ELSE <<HexDigit(b[1] \div 16), HexDigit(b[1] % 16)>> \o HexString(Tail(b))

\* appendHex: hex digits of a 16-bit group without leading zeros
RECURSIVE AppendHex(_)
AppendHex(n) ==
    IF n < 16 THEN <<HexDigit(n)>>
    ELSE AppendHex(n \div 16) \o <<HexDigit(n % 16)>>

DottedQuad(b) ==
    Decimal(b[1]) \o <<46>> \o Decimal(b[2]) \o <<46>> \o
    Decimal(b[3]) \o <<46>> \o Decimal(b[4])

\* the 16-bit group g (0..7) of a 16-byte address
Group(b, g) == b[2 * g + 1] * 256 + b[2 * g + 2]

\* end (exclusive) of the run of zero groups that starts at group g
RECURSIVE ZeroRunEnd(_, _)
ZeroRunEnd(b, g) ==
    IF g < 8 /\ Group(b, g) = 0 THEN ZeroRunEnd(b, g + 1) ELSE g

\* the earliest longest run of at least two zero groups, as <<e0, e1>>;
\* <<-1, -1>> when there is none
LongestZeroRun(b) ==
    LET len(g) == ZeroRunEnd(b, g) - g
        best == CHOOSE g \in 0..7 :
                   /\ \A h \in 0..7 : len(h) <= len(g)
                   /\ \A h \in 0..(g - 1) : len(h) < len(g)
    IN IF len(best) >= 2 THEN <<best, best + len(best)>> ELSE <<-1, -1>>

RECURSIVE IPv6Groups(_, _, _)
IPv6Groups(b, g, run) ==
    IF g >= 8 THEN <<>>
    ELSE IF g = run[1]
         THEN <<58, 58>> \o (IF run[2] >= 8 THEN <<>>
                             ELSE AppendHex(Group(b, run[2]))
                                  \o IPv6Groups(b, run[2] + 1, run))
         ELSE (IF g > 0 THEN <<58>> ELSE <<>>)
              \o AppendHex(Group(b, g)) \o IPv6Groups(b, g + 1, run)

\* a 16-byte address that carries an IPv4 address (::ffff:a.b.c.d)
IsV4Mapped(b) ==
    /\ \A i \in 1..10 : b[i] = 0
    /\ b[11] = 255 /\ b[12] = 255

\* net.IP.String()
IPString(b) ==
    IF Len(b) = 0 THEN <<60, 110, 105, 108, 62>>                   \* "<nil>"
    ELSE IF Len(b) = 4 THEN DottedQuad(b)
    ELSE IF Len(b) # 16 THEN <<63>> \o HexString(b)                \* "?"+hex
    ELSE IF IsV4Mapped(b) THEN DottedQuad(SubSeq(b, 13, 16))
    ELSE IPv6Groups(b, 0, LongestZeroRun(b))

\* strings.Join(ips, ",")
RECURSIVE Join(_)
Join(ss) ==
    IF ss = <<>> THEN <<>>
    ELSE IF Len(ss) = 1 THEN ss[1]
    ELSE ss[1] \o <<44>> \o Join(Tail(ss))

(***************************************************************************)
(* DNS question section (readQuery).                                       *)
(***************************************************************************)
MaxPointerHops == 4

\* One domain name starting at off: labels up to the zero byte, a label
\* whose two top bits are set being a compression pointer to the rest of
\* the name.  next is the offset after the name as it is stored at off.
RECURSIVE ReadName(_, _, _)
ReadName(d, off, hops) ==
    IF off < 0 \/ off >= Len(d) THEN [err |-> TRUE, name |-> <<>>, next |-> off]
    ELSE LET b == At(d, off) IN
         IF b = 0 THEN [err |-> FALSE, name |-> <<>>, next |-> off + 1]
         ELSE IF b >= 192
         THEN IF off + 2 > Len(d) \/ hops = 0
              THEN [err |-> TRUE, name |-> <<>>, next |-> off]
              ELSE LET t == ReadName(d, (b - 192) * 256 + At(d, off + 1),
                                     hops - 1)
                   IN [err |-> t.err, name |-> t.name, next |-> off + 2]
         ELSE IF off + 1 + b > Len(d)
              THEN [err |-> TRUE, name |-> <<>>, next |-> off]
              ELSE LET r == ReadName(d, off + 1 + b, hops)
                       label == Slice(d, off + 1, off + 1 + b)
                   IN [err |-> r.err,
                       name |-> IF r.name = <<>> THEN label
                                ELSE label \o <<46>> \o r.name,
                       next |-> r.next]

\* the questions from index i on; each is a name, a type and a class
RECURSIVE ReadQuestions(_, _, _, _, _)
ReadQuestions(d, off, i, queryCount, domain) ==
    IF i >= queryCount THEN [err |-> FALSE, domain |-> domain, off |-> off]
    ELSE LET n == ReadName(d, off, MaxPointerHops) IN
         IF n.err \/ n.next + 4 > Len(d)
         THEN [err |-> TRUE, domain |-> <<>>, off |-> off]
         ELSE ReadQuestions(d, n.next + 4, i + 1, queryCount,
                            IF i = 0 THEN n.name ELSE domain)

\* readQuery(message, queryCount): the domain of the question section, which
\* begins after the header, and the offset of the answer section
ReadQuery(d, off, queryCount) ==
    ReadQuestions(d, off + DNSHeaderSize, 0, queryCount, <<>>)

(***************************************************************************)
(* DNS response decoder (dns_response.go).                                 *)
(***************************************************************************)
\* fastfailDnsResponse with a strict lower bound
FastfailAtHeaderSize(d) ==
    Len(d) < DNSHeaderSize \/ Len(d) > MaxMessageSize

\* fastfailDnsResponse: TRUE rejects the message
FastfailDnsResponse(d) ==
    Len(d) <= DNSHeaderSize \/ Len(d) > MaxMessageSize

\* the loop of readIpV4Answer from iteration i on
RECURSIVE ReadAnswers(_, _, _, _, _)
ReadAnswers(d, i, answerCount, off, ips) ==
    IF i >= answerCount THEN [off |-> off, ips |-> ips]
    ELSE LET off1 == off + 2
             t == ReadUInt16(d, off1)
         IN IF t.incomplete THEN [off |-> off1, ips |-> ips]
            ELSE LET off2 == off1 + 8
                     l == ReadUInt16(d, off2)
                 IN IF l.incomplete THEN [off |-> off2, ips |-> ips]
                    ELSE LET off3 == off2 + 2 IN
                         IF t.value = TypeA
                         THEN LET rb == ReadBytes(d, off3, l.value) IN
                              IF rb.nil THEN [off |-> rb.off, ips |-> ips]
                              ELSE ReadAnswers(d, i + 1, answerCount,
                                       rb.off + l.value,
                                       Append(ips, IPString(rb.bytes)))
                         ELSE ReadAnswers(d, i + 1, answerCount,
                                          off3 + l.value, ips)

\* readIpV4Answer: the joined addresses and the new message.Offset
ReadIpV4Answer(d, off, answerCount) ==
    LET r == ReadAnswers(d, 0, answerCount, off, <<>>) IN
    [off |-> r.off, ip |-> IF Len(r.ips) = 0 THEN <<>> ELSE Join(r.ips)]

\* numOfQuestions + numOfAnswers + numOfAuth + numOfAddl in uint16
NumOfRR(q, an, ns, ar) == (q + an + ns + ar) % 65536

\* flags & 0xf
RcodeOf(flags) == flags % 16
\* (flags >> 11) & 0xf
OpcodeOf(flags) == (flags \div 2048) % 16
\* (flags >> 15) & 0x1
QrOf(flags) == (flags \div 32768) % 2

\* the header check of parseDnsResponse
HeaderRejected(qr, opcode, rcode, numOfQuestions, numOfRR) ==
    qr = 0 \/ opcode > 2 \/ rcode > 5 \/ numOfQuestions = 0
        \/ numOfRR > MaxNumRR

\* a variant that flags every response as an error
IsErrorAlways(rcode) == rcode >= 0

\* the condition under which is_error and error_type are written
IsError(rcode) == rcode > 0

\* the attribute writes of parseDnsResponse
WriteAttributes(a, domain, ip, id, rcode) ==
    LET a1 == AddAttribute(a, "dns.domain", domain)
        a2 == IF Len(ip) > 0 THEN AddAttribute(a1, "dns.ip", ip) ELSE a1
        a3 == AddAttribute(a2, "dns.id", id)
        a4 == AddAttribute(a3, "dns.rcode", rcode)
    IN IF IsError(rcode)
       THEN AddAttribute(AddAttribute(a4, "is_error", TRUE),
                         "error_type", "ProtocolError")
       ELSE a4

\* parseDnsResponse on a message with data d, cursor off and attributes a
ParseDnsResponse(d, off, a) ==
    LET id == ReadUInt16(d, off).value
        flags == ReadUInt16(d, off + 2).value
        qr == QrOf(flags)
        opcode == OpcodeOf(flags)
        rcode == RcodeOf(flags)
        numOfQuestions == ReadUInt16(d, off + 4).value
        numOfAnswers == ReadUInt16(d, off + 6).value
        numOfAuth == ReadUInt16(d, off + 8).value
        numOfAddl == ReadUInt16(d, off + 10).value
        numOfRR == NumOfRR(numOfQuestions, numOfAnswers, numOfAuth, numOfAddl)
    IN IF HeaderRejected(qr, opcode, rcode, numOfQuestions, numOfRR)
       THEN [matched |-> FALSE, done |-> TRUE, off |-> off, attrs |-> a]
       ELSE LET q == ReadQuery(d, off, numOfQuestions) IN
            IF q.err
            THEN [matched |-> FALSE, done |-> TRUE, off |-> off, attrs |-> a]
            ELSE LET r == ReadIpV4Answer(d, q.off, numOfAnswers) IN
                 [matched |-> TRUE, done |-> TRUE, off |-> r.off,
                  attrs |-> WriteAttributes(a, q.domain, r.ip, id, rcode)]

(***************************************************************************)
(* DNS messages the decoder is run on.                                     *)
(***************************************************************************)
MaxAnswers == 3

U16(n) == <<n \div 256, n % 256>>

Flags(qr, opcode, mid, rcode) == qr * 32768 + opcode * 2048 + mid * 16 + rcode

Header(id, flags, qd, an, ns, ar) ==
    U16(id) \o U16(flags) \o U16(qd) \o U16(an) \o U16(ns) \o U16(ar)

\* question "a.b" type A class IN; the second question names it by pointer
Question1 == <<1, 97, 1, 98, 0>> \o U16(1) \o U16(1)
Question2 == <<192, 12>> \o U16(1) \o U16(1)
Questions(n) == IF n >= 2 THEN Question1 \o Question2 ELSE Question1

\* the i-th answer record of a given kind, its name a pointer to the question
AddrV4(i) == <<93, 184, 216, 33 + i>>
AddrV6(i) == <<32, 1, 13, 184, 0, 0, 0, 0, 0, 0, 0, 0, 0, 0, 0, i>>
Record(kind, i) ==
    <<192, 12>> \o
    (CASE kind = "A" -> U16(TypeA) \o U16(1) \o <<0, 0, 0, 60>> \o U16(4)
                            \o AddrV4(i)
       [] kind = "AAAA" -> U16(TypeAAAA) \o U16(1) \o <<0, 0, 0, 60>>
                            \o U16(16) \o AddrV6(i)
       [] OTHER -> U16(5) \o U16(1) \o <<0, 0, 0, 60>> \o U16(2)
                            \o <<192, 12>>)

RECURSIVE Records(_, _)
Records(kinds, i) ==
    IF i > Len(kinds) THEN <<>>
    ELSE Record(kinds[i], i) \o Records(kinds, i + 1)

RECURSIVE Zeros(_)
Zeros(n) == IF n <= 0 THEN <<>> ELSE <<0>> \o Zeros(n - 1)

Kinds == {"A", "AAAA", "CNAME"}

\* every header, in front of one question (two when announced) and one
\* address record
HeaderSweep ==
    { Header(id, Flags(qr, opcode, mid, rcode), qd, an, ns, ar)
          \o Questions(qd) \o Record("A", 1) :
        id \in {4660, 65535}, qr \in {0, 1}, opcode \in {0, 2, 3},
        mid \in {0, 24}, rcode \in {0, 1, 3, 5, 6},
        qd \in {0, 1, 2, 65535}, an \in {0, 1, 65535},
        ns \in {0, 24, 25}, ar \in {0, 1} }

\* every answer section of up to MaxAnswers records, announced exactly or
\* with one record more than is there, cut at every length
BodySweep ==
    UNION { { SubSeq(m, 1, cut) : cut \in 0..Len(m) } :
        m \in { Header(4660, Flags(1, 0, 24, rcode), qd, an, 0, 0)
                    \o Questions(qd) \o Records(kinds, 1) :
                  rcode \in {0, 3}, qd \in {1, 2},
                  kinds \in SeqsUpTo(Kinds, MaxAnswers),
                  an \in 0..(MaxAnswers + 1) } }

\* a response padded to the largest accepted size and around it
SizeSweep ==
    { Header(4660, Flags(1, 0, 24, 0), 1, 1, 0, 0) \o Question1
          \o Record("A", 1) \o Zeros(n - DNSHeaderSize - 9 - 16) :
        n \in (MaxMessageSize - 1)..(MaxMessageSize + 1) }

InitDns ==
    /\ Data \in HeaderSweep \cup BodySweep \cup SizeSweep
    /\ Offset = 0
    /\ attrs = NoAttributes
    /\ pc = "new"
    /\ fastfail = FALSE /\ matched = FALSE /\ done = FALSE
    /\ DubboIdle

\* the protocol identifier runs the fast-fail predicate on the message
FastFail ==
    /\ pc = "new"
    /\ fastfail' = FastfailDnsResponse(Data)
    /\ pc' = IF FastfailDnsResponse(Data) THEN "rejected" ELSE "passed"
    /\ UNCHANGED <<Data, Offset, attrs, matched, done>>
    /\ UNCHANGED dubboVars

\* the parse function runs on the message
Parse ==
    /\ pc \in {"new", "passed"}
    /\ LET r == ParseDnsResponse(Data, Offset, attrs) IN
          /\ matched' = r.matched
          /\ done' = r.done
          /\ Offset' = r.off
          /\ attrs' = r.attrs
    /\ pc' = "parsed"
    /\ UNCHANGED <<Data, fastfail>>
    /\ UNCHANGED dubboVars

NextDns == FastFail \/ Parse

SpecDns == InitDns /\ [][NextDns]_vars

(***************************************************************************)
(* Properties of the Dubbo serializers.                                    *)
(***************************************************************************)
IsHessian == GetSerializer(serialID) = "hessian2"
IsFastjson == GetSerializer(serialID) = "fastjson"

\* The Hessian2 string at offset as the format describes it: the width of
\* its length prefix and the announced payload length.
C6_Tag == At(data, offset)
C6_Long == C6_Tag \in 48..51
C6_Prefix == IF C6_Long THEN 2 ELSE 1
C6_PrefixInside == offset + C6_Prefix <= Len(data)
C6_L == IF C6_Long THEN (C6_Tag - 48) * 256 + At(data, offset + 1) ELSE C6_Tag
C6_Start == offset + C6_Prefix
C6_Inside == C6_PrefixInside /\ C6_Start + C6_L <= Len(data)
C6_Case == op = "getStringValue" /\ IsHessian /\ offset < Len(data)

\* C6 (as stated): Hessian2 getStringValue returns exactly the L payload
\* bytes and the offset just after them when they lie inside data, and the
\* empty string when they do not.
C6_Original ==
    C6_Case =>
        /\ ~res.panic
        /\ C6_Inside => /\ res.val = Slice(data, C6_Start, C6_Start + C6_L)
                        /\ res.off = C6_Start + C6_L
        /\ ~C6_Inside => res.val = <<>>

\* C6 (amended): Hessian2 getStringValue returns exactly the L payload bytes
\* and the offset just after them when they lie inside data; when they do not,
\* it returns the bytes of data that remain after the length prefix (none
\* when the prefix itself is cut) and the new offset len(data).
C6_Amended ==
    C6_Case =>
        /\ ~res.panic
        /\ C6_Inside => /\ res.val = Slice(data, C6_Start, C6_Start + C6_L)
                        /\ res.off = C6_Start + C6_L
        /\ ~C6_Inside =>
              /\ res.off = Len(data)
              /\ res.val = IF C6_PrefixInside
                           THEN Slice(data, C6_Start, Len(data)) ELSE <<>>

\* a truncated two-byte-prefixed string of which one payload byte is left
C6_Witness ==
    /\ C6_Case /\ C6_Long /\ C6_PrefixInside /\ ~C6_Inside
    /\ Len(res.val) = 1 /\ res.off = Len(data)

\* The first quoted field at or after offset is "key":"value", the value
\* running from index v to the closing quote at index e.
C7_FieldAt(q, e) ==
    LET n == Len(key) IN
    /\ \A j \in offset..(q - 1) : At(data, j) # JsonQutoes
    /\ At(data, q) = JsonQutoes
    /\ q + n + 3 < e /\ e < Len(data)
    /\ Slice(data, q + 1, q + 1 + n) = key
    /\ At(data, q + n + 1) = JsonQutoes
    /\ At(data, q + n + 2) = JsonColon
    /\ At(data, q + n + 3) = JsonQutoes
    /\ At(data, e) = JsonQutoes
    /\ \A j \in (q + n + 4)..(e - 1) : At(data, j) # JsonQutoes

C7_ValueOf(q, e) == Slice(data, q + Len(key) + 4, e)

\* a field "key":"..." starts at index q
C7_KeyAt(q) ==
    LET n == Len(key) IN
    /\ q + n + 3 < Len(data)
    /\ At(data, q) = JsonQutoes
    /\ Slice(data, q + 1, q + 1 + n) = key
    /\ At(data, q + n + 1) = JsonQutoes
    /\ At(data, q + n + 2) = JsonColon
    /\ At(data, q + n + 3) = JsonQutoes

\* the calls that return (a call that panics returns nothing to compare)
C7_Case ==
    /\ op = "getStringValueByKey" /\ IsFastjson /\ offset < Len(data)
    /\ ~res.panic

\* C7 (as stated): Fastjson getStringValueByKey returns value when the first
\* quoted field at or after from is "key":"value" (index 0 included), and
\* the empty string when no field "key":"..." occurs at or after from.
C7_Original ==
    C7_Case =>
        /\ \A q \in offset..(Len(data) - 1) : \A e \in q..(Len(data) - 1) :
              C7_FieldAt(q, e) => res.val = C7_ValueOf(q, e)
        /\ (\A q \in offset..(Len(data) - 1) : ~C7_KeyAt(q))
              => res.val = <<>>

\* C8 (as stated): no serializer method panics; every call returns a value.
C8_Original == op \in {"eatString", "getStringValue", "getStringValueByKey"}
                   => ~res.panic

\* C10 (as stated): eatString returns the same new offset as getStringValue,
\* and that offset lies in [offset, len(data)].
C10_Original ==
    op = "eatString" /\ ~getStringValue(serialID, data, offset).panic =>
        /\ res.off = getStringValue(serialID, data, offset).off
        /\ offset <= res.off /\ res.off <= Len(data)

(***************************************************************************)
(* Properties of the DNS response decoder.                                 *)
(***************************************************************************)
\* the header fields as the wire format defines them (true integers)
HdrComplete == Len(Data) >= DNSHeaderSize
HdrField(i) == Data[2 * i + 1] * 256 + Data[2 * i + 2]
HdrID == HdrField(0)
HdrOpcode == (HdrField(1) \div 2048) % 16
HdrRcode == HdrField(1) % 16
HdrQD == HdrField(2)
HdrAN == HdrField(3)
HdrNS == HdrField(4)
HdrAR == HdrField(5)

Parsed == pc = "parsed"

\* C1 (as stated): parse returns (matched=false, done=true) for every
\* message whose OPCODE is not in {0,1,2}, whose RCODE is above 5, whose
\* QDCOUNT is 0, or whose four counts add up (as integers) to more than
\* MaxNumRR.
C1_Original ==
    (Parsed /\ HdrComplete
        /\ (\/ HdrOpcode \notin {0, 1, 2}
            \/ HdrRcode > 5
            \/ HdrQD < 1
            \/ HdrQD + HdrAN + HdrNS + HdrAR > MaxNumRR))
    => (matched = FALSE /\ done = TRUE)

\* C2 (as stated): fast-fail rejects exactly the messages whose length is
\* outside the closed interval [DNSHeaderSize, MaxMessageSize].
C2_Original ==
    pc \in {"passed", "rejected"} =>
        (fastfail = FALSE
            <=> (DNSHeaderSize <= Len(Data) /\ Len(Data) <= MaxMessageSize))

\* C2 (amended): fast-fail rejects exactly the messages whose length is
\* outside the half-open interval (DNSHeaderSize, MaxMessageSize]: a message
\* of exactly DNSHeaderSize bytes is rejected, one of MaxMessageSize bytes
\* passes.
C2_Amended ==
    pc \in {"passed", "rejected"} =>
        /\ fastfail = FALSE
              <=> (DNSHeaderSize < Len(Data) /\ Len(Data) <= MaxMessageSize)
        /\ pc = "rejected" <=> fastfail

\* a bare header has been rejected
C2_Witness == pc = "rejected" /\ fastfail /\ Len(Data) = DNSHeaderSize

DnsKeys == {"dns.domain", "dns.ip", "dns.id", "dns.rcode", "is_error"}

\* C3: when parse returns matched=true the message carries dns.id = header
\* ID and dns.rcode = low four bits of the flags, and is_error is written
\* (as true) exactly when rcode > 0; when it returns matched=false none of
\* dns.domain, dns.ip, dns.id, dns.rcode, is_error has been written.
C3_Attributes ==
    Parsed =>
        /\ matched =>
              /\ {"dns.id", "dns.rcode"} \subseteq DOMAIN attrs
              /\ attrs["dns.id"] = HdrID
              /\ attrs["dns.rcode"] = HdrRcode
              /\ ("is_error" \in DOMAIN attrs) <=> (HdrRcode > 0)
              /\ ("is_error" \in DOMAIN attrs) => (attrs["is_error"] = TRUE)
        /\ ~matched => (DOMAIN attrs) \cap DnsKeys = {}

\* an NXDOMAIN response has been matched and flagged
C3_Witness ==
    /\ Parsed /\ matched /\ HdrRcode = 3
    /\ attrs["dns.rcode"] = 3 /\ attrs["is_error"] = TRUE
    /\ attrs["dns.id"] = 4660

\* where the answer section starts
AnswerStart == ReadQuery(Data, 0, HdrQD).off

\* the k records from pos on are all complete records of the given type and
\* rdlength, each with a two-byte compressed name
RECURSIVE WellFormedAnswers(_, _, _, _)
WellFormedAnswers(pos, k, type, rdlength) ==
    \/ k = 0
    \/ /\ pos + 12 + rdlength <= Len(Data)
       /\ At(Data, pos) >= 192
       /\ At(Data, pos + 2) * 256 + At(Data, pos + 3) = type
       /\ At(Data, pos + 10) * 256 + At(Data, pos + 11) = rdlength
       /\ WellFormedAnswers(pos + 12 + rdlength, k - 1, type, rdlength)

\* the addresses of k such records, formatted, in answer order
RECURSIVE AnswerAddresses(_, _, _)
AnswerAddresses(pos, k, rdlength) ==
    IF k = 0 THEN <<>>
    ELSE <<IPString(Slice(Data, pos + 12, pos + 12 + rdlength))>>
         \o AnswerAddresses(pos + 12 + rdlength, k - 1, rdlength)

\* C4 (as stated): for an accepted response whose answer section holds
\* k >= 1 complete type-A records, dns.ip is the comma-joined list of all k
\* addresses in answer order.
C4_Original ==
    (Parsed /\ matched /\ HdrAN >= 1
        /\ WellFormedAnswers(AnswerStart, HdrAN, TypeA, 4))
    => /\ "dns.ip" \in DOMAIN attrs
       /\ attrs["dns.ip"] = Join(AnswerAddresses(AnswerStart, HdrAN, 4))

\* C5 (as stated): for an accepted response whose answers are complete AAAA
\* records, the address of every record is included in dns.ip, which is
\* therefore present and non-empty.
C5_Original ==
    (Parsed /\ matched /\ HdrAN >= 1
        /\ WellFormedAnswers(AnswerStart, HdrAN, TypeAAAA, 16))
    => /\ "dns.ip" \in DOMAIN attrs
       /\ attrs["dns.ip"] = Join(AnswerAddresses(AnswerStart, HdrAN, 16))

\* C9 (as stated): after parse has run readIpV4Answer, the cursor lies
\* between its value on entry (0) and len(message.Data).
C9_Original ==
    (Parsed /\ matched) => (0 <= Offset /\ Offset <= Len(Data))

====
